---- MODULE Spec2Model ----
(***************************************************************************)
(* Tasky (src/Tasky.py): the task store, the JSON persistence, the search  *)
(* filter and the table-cursor driven selection of TaskManagerApp.         *)
(*                                                                         *)
(* Strings are sequences of one-character strings, so that lower(), the    *)
(* substring test, str(int) and int(str) are computed, not assumed.        *)
(* A Task object is identified by its id: within one process every Task    *)
(* object is built either by load_tasks or by action_add_task, and the     *)
(* variable current_task holds the id of the object it references (the     *)
(* object may no longer be in self.tasks).                                 *)
(***************************************************************************)
EXTENDS Integers, Sequences, FiniteSets, TLC

VARIABLES pc, file, tasks, task_counter, current_task, search_filter,
          table_rows, cursor_row, highlight_pending, modal_waiting, now,
          ever_ids, disk_shadow, writable, cursor_by_user, last_event

vars == <<pc, file, tasks, task_counter, current_task, search_filter,
          table_rows, cursor_row, highlight_pending, modal_waiting, now,
          ever_ids, disk_shadow, writable, cursor_by_user, last_event>>

\* pc            "start" (constructed, not mounted), "running", "crashed"
\* file          tasks.json: [kind, data], data the parsed list of objects
\* tasks, task_counter, current_task, search_filter: the app's fields
\* table_rows    the row keys of the DataTable, in display order
\* cursor_row    table.cursor_coordinate.row
\* highlight_pending  RowHighlighted messages posted and not yet handled
\* modal_waiting  action_add_task calls suspended at their await
\* now           the clock datetime.now() reads
\* writable      whether a write to the storage succeeds
\* history: ever_ids, the ids self.tasks has held in this process;
\* disk_shadow, the collection the last successful write was given (valid
\* only while the file is that write's); cursor_by_user, whether the cursor's
\* row was chosen by the user (not by table.clear()); last_event, the
\* handler that ran last

(* ---------------------------- bounds ----------------------------------- *)
\* ids one process may ever hold (loaded or created)
MaxIds == 3
\* clock values; the clock advances when the program is started again
MaxNow == 1
\* RowHighlighted messages that may be in flight at once
MaxPending == 1
\* AddTaskModal dialogs that may be awaited at once
MaxModals == 2

(* ---------------------------- strings ---------------------------------- *)
DigitChars == <<"0", "1", "2", "3", "4", "5", "6", "7", "8", "9">>

IsDigit(c) == \E d \in 1..10 : DigitChars[d] = c

DigitVal(c) == (CHOOSE d \in 1..10 : DigitChars[d] = c) - 1

\* str(n) for n >= 0
RECURSIVE IntToStr(_)
IntToStr(n) ==
    IF n < 10 THEN <<DigitChars[n + 1]>>
    ELSE IntToStr(n \div 10) \o <<DigitChars[(n % 10) + 1]>>

\* int(s) succeeds on a non-empty digit string (the only numeric form the
\* modelled files contain); anything else is ValueError
IsNumeric(s) == Len(s) > 0 /\ \A i \in 1..Len(s) : IsDigit(s[i])

RECURSIVE StrToInt(_)
StrToInt(s) ==
    IF Len(s) = 0 THEN 0
    ELSE 10 * StrToInt(SubSeq(s, 1, Len(s) - 1)) + DigitVal(s[Len(s)])

LowerChar(c) ==
    CASE c = "A" -> "a" [] c = "B" -> "b" [] c = "C" -> "c" [] OTHER -> c

\* str.strip(): the blanks at both ends removed
RECURSIVE Strip(_)
Strip(s) ==
    IF Len(s) = 0 THEN s
    ELSE IF s[1] = " " THEN Strip(Tail(s))
    ELSE IF s[Len(s)] = " " THEN Strip(SubSeq(s, 1, Len(s) - 1))
    ELSE s

\* str.split(","): the pieces between the commas, empty pieces included
\* ("".split(",") is [""])
RECURSIVE Split(_)
Split(s) ==
    IF \A i \in 1..Len(s) : s[i] # "," THEN <<s>>
    ELSE LET k == CHOOSE i \in 1..Len(s) :
                      s[i] = "," /\ \A j \in 1..(i - 1) : s[j] # ","
         IN <<SubSeq(s, 1, k - 1)>> \o Split(SubSeq(s, k + 1, Len(s)))

\* the priority names
Low == <<"l", "o", "w">>
Normal == <<"n", "o", "r", "m", "a", "l">>
High == <<"h", "i", "g", "h">>

\* str.lower()
Lower(s) == [i \in 1..Len(s) |-> LowerChar(s[i])]

\* Python's `sub in s` on strings
Contains(sub, s) ==
    \E off \in 0..(Len(s) - Len(sub)) :
        \A j \in 1..Len(sub) : s[off + j] = sub[j]

\* None, and the absence of a referenced Task (ids are never empty strings)
None == <<>>

\* datetime.now().isoformat(): a sortable text of the clock
IsoFormat(t) == IntToStr(t)

(* ---------------------------- Task ------------------------------------- *)
\* Task(id, title, priority, tags) as action_add_task builds it:
\* completed defaults to False, __post_init__ stamps created_at
Task(id, title, priority, tags, clock) ==
    [id |-> id, title |-> title, completed |-> FALSE, priority |-> priority,
     tags |-> tags, created_at |-> IsoFormat(clock)]

TaskFields == {"id", "title", "completed", "priority", "tags", "created_at"}
RequiredFields == {"id", "title"}

(* ---------------------------- JSON ------------------------------------- *)
JStr(s) == [t |-> "string", v |-> s]
JBool(b) == [t |-> "bool", v |-> b]
JList(l) == [t |-> "list", v |-> l]
JNull == [t |-> "null", v |-> None]

\* variant: the completed flag is not written
JsonDump_NoCompleted(task) ==
    [id |-> JStr(task.id), title |-> JStr(task.title),
     priority |-> JStr(task.priority),
     tags |-> JList([i \in 1..Len(task.tags) |-> JStr(task.tags[i])]),
     created_at |-> JStr(task.created_at)]

\* asdict(task) as json.dump writes it: one object, every field by name
JsonDump(task) ==
    [id |-> JStr(task.id), title |-> JStr(task.title),
     completed |-> JBool(task.completed), priority |-> JStr(task.priority),
     tags |-> JList([i \in 1..Len(task.tags) |-> JStr(task.tags[i])]),
     created_at |-> JStr(task.created_at)]

JsonDumpAll(ts) == [i \in 1..Len(ts) |-> JsonDump(ts[i])]

\* Task(**obj) raises TypeError when a required field is missing or a key
\* is not a field of the dataclass
Constructible(obj) ==
    /\ RequiredFields \subseteq DOMAIN obj
    /\ DOMAIN obj \subseteq TaskFields

\* json.load's value of a field
PyValue(j) ==
    IF j.t = "list" THEN [i \in 1..Len(j.v) |-> j.v[i].v] ELSE j.v

\* Task(**obj) for a constructible obj: dataclass defaults, then
\* __post_init__ (tags None -> [], created_at None -> now)
TaskFromJson(obj, clock) ==
    [id |-> PyValue(obj["id"]),
     title |-> PyValue(obj["title"]),
     completed |-> IF "completed" \in DOMAIN obj
                   THEN PyValue(obj["completed"]) ELSE FALSE,
     priority |-> IF "priority" \in DOMAIN obj
                  THEN PyValue(obj["priority"]) ELSE Normal,
     tags |-> IF "tags" \in DOMAIN obj /\ obj["tags"].t # "null"
              THEN PyValue(obj["tags"]) ELSE <<>>,
     created_at |-> IF "created_at" \in DOMAIN obj
                       /\ obj["created_at"].t # "null"
                    THEN PyValue(obj["created_at"]) ELSE IsoFormat(clock)]


IdNum(t) == StrToInt(t.id)

\* max(int(task.id) for task in self.tasks), self.tasks not empty
MaxIdNum(ts) ==
    CHOOSE m \in {IdNum(ts[i]) : i \in 1..Len(ts)} :
        \A i \in 1..Len(ts) : IdNum(ts[i]) <= m
Ids(ts) == {ts[i].id : i \in 1..Len(ts)}
IdSeq(ts) == [i \in 1..Len(ts) |-> ts[i].id]

\* the exception load_tasks meets on a parsed file, "none" if it meets none:
\* the list comprehension builds every Task first (TypeError), then max()
\* applies int() to the ids in order (TypeError on None, ValueError on text)
LoadError(data) ==
    IF \E i \in 1..Len(data) : ~Constructible(data[i]) THEN "TypeError"
    ELSE LET bad == {i \in 1..Len(data) :
                        \/ data[i]["id"].t # "string"
                        \/ ~IsNumeric(data[i]["id"].v)}
         IN IF bad = {} THEN "none"
            ELSE LET k == CHOOSE i \in bad : \A j \in bad : i <= j
                 IN IF data[k]["id"].t # "string" THEN "TypeError"
                    ELSE "ValueError"

\* variant: the counter restarts at the maximum id, not one past it
load_tasks_MaxOnly(f, clock) ==
    IF f.kind # "json"
    THEN [outcome |-> "ok", tasks |-> <<>>, task_counter |-> 0]
    ELSE LET err == LoadError(f.data)
             loaded == [i \in 1..Len(f.data) |-> TaskFromJson(f.data[i], clock)]
         IN IF err = "TypeError"
            THEN [outcome |-> "raise", tasks |-> <<>>, task_counter |-> 0]
            ELSE IF err = "ValueError"
            THEN [outcome |-> "ok", tasks |-> <<>>, task_counter |-> 0]
            ELSE [outcome |-> "ok", tasks |-> loaded,
                  task_counter |-> IF loaded = <<>> THEN 0
                                   ELSE MaxIdNum(loaded)]

\* load_tasks: [outcome, tasks, task_counter] from the file and the state
\* __init__ left (tasks = [], task_counter = 0).  "raise" is an exception
\* that the except clause (JSONDecodeError, KeyError, ValueError) lets pass.
load_tasks(f, clock) ==
    IF f.kind = "absent"
    THEN [outcome |-> "ok", tasks |-> <<>>, task_counter |-> 0]
    ELSE IF f.kind = "garbage"
    THEN [outcome |-> "ok", tasks |-> <<>>, task_counter |-> 0]
    ELSE LET err == LoadError(f.data)
             loaded == [i \in 1..Len(f.data) |-> TaskFromJson(f.data[i], clock)]
         IN IF err = "TypeError"
            THEN [outcome |-> "raise", tasks |-> <<>>, task_counter |-> 0]
            ELSE IF err = "ValueError"
            THEN [outcome |-> "ok", tasks |-> <<>>, task_counter |-> 0]
            ELSE [outcome |-> "ok", tasks |-> loaded,
                  task_counter |-> IF loaded = <<>> THEN 0
                                   ELSE MaxIdNum(loaded) + 1]

\* variant: only the newest task is written
save_tasks_Newest(ts) ==
    [kind |-> "json",
     data |-> IF ts = <<>> THEN <<>> ELSE <<JsonDump(ts[Len(ts)])>>]

\* save_tasks when the write succeeds
save_tasks(ts) == [kind |-> "json", data |-> JsonDumpAll(ts)]

\* save_tasks when the write raises (swallowed): open() failed and the file
\* is as before, or the write broke off and the file is not JSON any more
FailedWrite(f) == {f, [kind |-> "garbage", data |-> <<>>]}

(* ---------------------------- filter ----------------------------------- *)
\* variant: the tags are not searched
Matches_TitleOnly(task, search_lower) ==
    Contains(search_lower, Lower(task.title))

\* the condition of get_filtered_tasks' comprehension
Matches(task, search_lower) ==
    \/ Contains(search_lower, Lower(task.title))
    \/ \E i \in 1..Len(task.tags) : Contains(search_lower, Lower(task.tags[i]))

get_filtered_tasks(ts, search) ==
    IF search = <<>> THEN ts
    ELSE SelectSeq(ts, LAMBDA task : Matches(task, Lower(search)))

(* ---------------------------- inputs ----------------------------------- *)
\* variant: the priority typed is taken as it is
TaskData_AnyPriority(inp) ==
    LET priority == IF Strip(inp.priority) = <<>> THEN Normal
                    ELSE Strip(inp.priority)
        pieces == Split(Strip(inp.tags))
    IN [title |-> Strip(inp.title),
        priority |-> priority,
        tags |-> [i \in 1..Len(SelectSeq(pieces,
                                         LAMBDA tag : Strip(tag) # <<>>)) |->
                    Strip(SelectSeq(pieces,
                                    LAMBDA tag : Strip(tag) # <<>>)[i])]]

\* AddTaskModal.on_button_pressed, button "add": the task_data built from
\* the three Input values
TaskData(inp) ==
    LET priority == IF Strip(inp.priority) = <<>> THEN Normal
                    ELSE Strip(inp.priority)
        pieces == Split(Strip(inp.tags))
    IN [title |-> Strip(inp.title),
        priority |-> IF priority \in {Low, Normal, High} THEN priority
                     ELSE Normal,
        tags |-> [i \in 1..Len(SelectSeq(pieces,
                                         LAMBDA tag : Strip(tag) # <<>>)) |->
                    Strip(SelectSeq(pieces,
                                    LAMBDA tag : Strip(tag) # <<>>)[i])]]

\* `if title:` of on_button_pressed: only then is the modal dismissed
Dismisses(inp) == Strip(inp.title) # <<>>

\* what the user typed into the modal's three inputs before "Add Task"
ModalInputs ==
    { [title |-> <<" ", "A", "b">>, priority |-> <<" ">> \o High,
       tags |-> <<>>],
      [title |-> <<"b">>, priority |-> <<>>, tags |-> <<"B", "c">>],
      [title |-> <<"b", " ">>, priority |-> <<"x">>,
       tags |-> <<",", " ", "B", "c", " ", ",">>] }

\* a wider set of modal inputs: a blank title, repeated and blank tags,
\* priorities outside the three names
FormInputs ==
    ModalInputs
    \cup { [title |-> <<" ">>, priority |-> Low, tags |-> <<>>],
           [title |-> <<"b">>, priority |-> <<"L", "o", "w">>,
            tags |-> <<"B", "c", ",", " ", "B", "c">>],
           [title |-> <<"A", "b">>, priority |-> Low,
            tags |-> <<"c", ",", ",", "B">>] }

\* what AddTaskModal hands to dismiss() on "Add Task"
ModalResults == { TaskData(inp) : inp \in { i \in ModalInputs : Dismisses(i) } }

FormResults == { TaskData(inp) : inp \in { i \in FormInputs : Dismisses(i) } }

\* texts typed into the search input
SearchTexts == { <<"A">>, <<"b", "C">> }

\* a collection an earlier session may have saved
PriorCollections ==
    { <<>>,
      << [id |-> <<"9">>, title |-> <<"A", "b">>, completed |-> TRUE,
          priority |-> Low, tags |-> << <<"B", "c">> >>,
          created_at |-> IsoFormat(0)] >> }

WithoutField(obj, k) == [x \in (DOMAIN obj) \ {k} |-> obj[x]]

\* the storage file as the program may find it at start: absent, not JSON,
\* as save_tasks wrote it, or with its first record damaged or edited
InitialFiles ==
    { [kind |-> "absent", data |-> <<>>], [kind |-> "garbage", data |-> <<>>] }
    \cup { save_tasks(c) : c \in PriorCollections }
    \cup UNION { LET d == JsonDumpAll(c) IN
                 { [kind |-> "json",
                    data |-> [d EXCEPT ![1] = WithoutField(d[1], "title")]],
                   [kind |-> "json",
                    data |-> [d EXCEPT ![1]["id"] = JStr(<<"x">>)]],
                   [kind |-> "json",
                    data |-> [d EXCEPT ![1]["id"] = JNull]],
                   [kind |-> "json",
                    data |-> [d EXCEPT ![1]["priority"] = JStr(<<"x">>)]] }
                 : c \in PriorCollections \ {<<>>} }

(* ---------------------------- state ------------------------------------ *)
\* TaskManagerApp.__init__ and the reactive defaults, before on_mount
Init ==
    /\ pc = "start"
    /\ file \in InitialFiles
    /\ tasks = <<>>
    /\ task_counter = 0
    /\ current_task = None
    /\ search_filter = <<>>
    /\ table_rows = <<>>
    /\ cursor_row = 0
    /\ highlight_pending = 0
    /\ modal_waiting = 0
    /\ now = 0
    /\ ever_ids = {}
    /\ disk_shadow = IF \E c \in PriorCollections : file = save_tasks(c)
                     THEN [valid |-> TRUE,
                           tasks |-> CHOOSE c \in PriorCollections :
                                         file = save_tasks(c)]
                     ELSE [valid |-> FALSE, tasks |-> <<>>]
    /\ writable = TRUE
    /\ cursor_by_user = FALSE
    /\ last_event = "none"

\* table.cursor_coordinate is a Coordinate, a two-field NamedTuple: as a
\* condition it is true whatever row it holds
CursorCoordinateTruthy(row) == TRUE

\* variant: the cursor's row is taken as counted from 1
update_current_task_OneBased(ts, search, row) ==
    LET filtered_tasks == get_filtered_tasks(ts, search)
    IN IF 1 <= row /\ row <= Len(filtered_tasks)
       THEN filtered_tasks[row].id
       ELSE None

\* update_current_task once get_row_at has found the cursor's row
update_current_task(ts, search, row) ==
    LET filtered_tasks == get_filtered_tasks(ts, search)
    IN IF CursorCoordinateTruthy(row)
       THEN IF 0 <= row /\ row < Len(filtered_tasks)
            THEN filtered_tasks[row + 1].id
            ELSE None
       ELSE None

\* variant: every task gets a row, whatever the search text
refresh_table_Unfiltered(ts, search) ==
    LET filtered_tasks == ts
        posted == IF filtered_tasks # <<>> THEN 1 ELSE 0
    IN /\ highlight_pending + posted <= MaxPending
       /\ table_rows' = IdSeq(filtered_tasks)
       /\ cursor_row' = 0
       /\ cursor_by_user' = FALSE
       /\ highlight_pending' = highlight_pending + posted
       /\ current_task' = IF filtered_tasks # <<>> /\ ~CursorCoordinateTruthy(0)
                          THEN update_current_task(ts, search, 0)
                          ELSE current_task

\* refresh_table on the collection ts and the search text: table.clear()
\* empties the table and puts the cursor on row 0; add_row keys each row by
\* the task's id, and the first row added to an empty table makes the table
\* post RowHighlighted (handled later, by on_data_table_row_highlighted)
refresh_table(ts, search) ==
    LET filtered_tasks == get_filtered_tasks(ts, search)
        posted == IF filtered_tasks # <<>> THEN 1 ELSE 0
    IN /\ highlight_pending + posted <= MaxPending
       /\ table_rows' = IdSeq(filtered_tasks)
       /\ cursor_row' = 0
       /\ cursor_by_user' = FALSE
       /\ highlight_pending' = highlight_pending + posted
       /\ current_task' = IF filtered_tasks # <<>> /\ ~CursorCoordinateTruthy(0)
                          THEN update_current_task(ts, search, 0)
                          ELSE current_task

\* variant: a collection that became empty is not written
SaveTasks_SkipEmpty(ts) ==
    IF writable /\ ts # <<>>
    THEN /\ file' = save_tasks(ts)
         /\ disk_shadow' = [valid |-> TRUE, tasks |-> ts]
    ELSE /\ file' = file
         /\ disk_shadow' = disk_shadow

\* save_tasks(): the write succeeds while the storage is writable, and
\* raises otherwise (the exception is passed)
SaveTasks(ts) ==
    IF writable
    THEN /\ file' = save_tasks(ts)
         /\ disk_shadow' = [valid |-> TRUE, tasks |-> ts]
    ELSE /\ file' \in FailedWrite(file)
         /\ disk_shadow' = IF file' = file THEN disk_shadow
                           ELSE [valid |-> FALSE, tasks |-> <<>>]

(* ---------------------------- handlers --------------------------------- *)
\* on_mount: load_tasks, setup_table, refresh_table
on_mount ==
    /\ pc = "start"
    /\ last_event' = "mount"
    /\ LET r == load_tasks(file, now)
       IN IF r.outcome = "raise"
          THEN /\ pc' = "crashed"
               /\ UNCHANGED <<tasks, task_counter, ever_ids, table_rows,
                              cursor_row, highlight_pending, current_task,
                              cursor_by_user>>
          ELSE /\ pc' = "running"
               /\ tasks' = r.tasks
               /\ task_counter' = r.task_counter
               /\ ever_ids' = Ids(r.tasks)
               /\ refresh_table(r.tasks, search_filter)
    /\ UNCHANGED <<file, search_filter, modal_waiting, now, disk_shadow,
                   writable>>

\* on_data_table_row_highlighted -> update_current_task; get_row_at raises
\* RowDoesNotExist when the table has no row under the cursor
on_data_table_row_highlighted ==
    /\ pc = "running"
    /\ last_event' = "highlight"
    /\ highlight_pending > 0
    /\ highlight_pending' = highlight_pending - 1
    /\ IF cursor_row < Len(table_rows)
       THEN /\ current_task' = update_current_task(tasks, search_filter, cursor_row)
            /\ pc' = pc
       ELSE /\ pc' = "crashed"
            /\ current_task' = current_task
    /\ UNCHANGED <<file, tasks, task_counter, search_filter, table_rows,
                   cursor_row, modal_waiting, now, ever_ids, disk_shadow,
                   writable, cursor_by_user>>

\* the user moves the table's row cursor (arrow keys, click): the table
\* posts RowHighlighted for the new row
MoveCursor ==
    /\ pc = "running"
    /\ last_event' = "move"
    /\ highlight_pending < MaxPending
    /\ \E r \in 0..(Len(table_rows) - 1) :
        /\ r # cursor_row
        /\ cursor_row' = r
    /\ cursor_by_user' = TRUE
    /\ highlight_pending' = highlight_pending + 1
    /\ UNCHANGED <<pc, file, tasks, task_counter, current_task, search_filter,
                   table_rows, modal_waiting, now, ever_ids, disk_shadow, writable>>

\* on_input_changed for the search input
on_input_changed ==
    /\ pc = "running"
    /\ last_event' = "input"
    /\ \E value \in SearchTexts \cup {<<>>} :
        /\ search_filter' = value
        /\ refresh_table(tasks, value)
    /\ UNCHANGED <<pc, file, tasks, task_counter, modal_waiting, now,
                   ever_ids, disk_shadow, writable>>

\* action_clear_search
action_clear_search ==
    /\ pc = "running"
    /\ last_event' = "clear_search"
    /\ search_filter' = <<>>
    /\ refresh_table(tasks, <<>>)
    /\ UNCHANGED <<pc, file, tasks, task_counter, modal_waiting, now,
                   ever_ids, disk_shadow, writable>>

\* action_add_task up to its await: the modal is pushed
action_add_task ==
    /\ pc = "running"
    /\ last_event' = "open_modal"
    /\ modal_waiting < MaxModals
    /\ Cardinality(ever_ids) + modal_waiting < MaxIds
    /\ modal_waiting' = modal_waiting + 1
    /\ UNCHANGED <<pc, file, tasks, task_counter, current_task, search_filter,
                   table_rows, cursor_row, highlight_pending, now, ever_ids,
                   disk_shadow, writable, cursor_by_user>>

\* variant: the id is the number of tasks the list holds
NewTaskId_FromLen(counter) == IntToStr(Len(tasks))

\* the id action_add_task gives the new Task
NewTaskId(counter) == IntToStr(counter)

\* variant: the counter is not advanced
NextCounter_Stuck(counter) == counter

\* self.task_counter += 1
NextCounter(counter) == counter + 1

\* variant: the new task is put first
AppendTask_Front(ts, new_task) == <<new_task>> \o ts

\* the collection after action_add_task's append
AppendTask(ts, new_task) == Append(ts, new_task)

\* action_add_task from its await on, the modal dismissed with one of the
\* given task data: no await follows, so the rest runs as one step
AddTaskWith(results) ==
    /\ pc = "running"
    /\ last_event' = "create"
    /\ modal_waiting > 0
    /\ Cardinality(ever_ids) < MaxIds
    /\ \E result \in results :
        LET new_task == Task(NewTaskId(task_counter), result.title,
                             result.priority, result.tags, now)
        IN /\ tasks' = AppendTask(tasks, new_task)
           /\ task_counter' = NextCounter(task_counter)
           /\ ever_ids' = ever_ids \cup {new_task.id}
           /\ SaveTasks(tasks')
           /\ refresh_table(tasks', search_filter)
    /\ modal_waiting' = modal_waiting - 1
    /\ UNCHANGED <<pc, search_filter, now, writable>>

AddTaskResume == AddTaskWith(ModalResults)

\* the same with the wider set of modal inputs
AddTaskForm == AddTaskWith(FormResults)

\* action_add_task from its await on, the modal cancelled (result None)
AddTaskCancel ==
    /\ pc = "running"
    /\ last_event' = "cancel"
    /\ modal_waiting > 0
    /\ modal_waiting' = modal_waiting - 1
    /\ UNCHANGED <<pc, file, tasks, task_counter, current_task, search_filter,
                   table_rows, cursor_row, highlight_pending, now, ever_ids,
                   disk_shadow, writable, cursor_by_user>>

\* variant: the flag is set, not flipped
ToggleCompleted_SetTrue(ts, id) ==
    [i \in 1..Len(ts) |->
        IF ts[i].id = id THEN [ts[i] EXCEPT !.completed = TRUE] ELSE ts[i]]

\* current_task.completed = not current_task.completed, seen through
\* self.tasks: the Task object with that id, if the list still holds it
ToggleCompleted(ts, id) ==
    [i \in 1..Len(ts) |->
        IF ts[i].id = id THEN [ts[i] EXCEPT !.completed = ~ts[i].completed]
        ELSE ts[i]]

\* action_complete_task
action_complete_task ==
    /\ pc = "running"
    /\ last_event' = "toggle"
    /\ IF current_task # None
       THEN /\ tasks' = ToggleCompleted(tasks, current_task)
            /\ SaveTasks(tasks')
            /\ refresh_table(tasks', search_filter)
       ELSE UNCHANGED <<file, tasks, current_task, table_rows, cursor_row,
                        highlight_pending, disk_shadow, cursor_by_user>>
    /\ UNCHANGED <<pc, task_counter, search_filter, modal_waiting, now,
                   ever_ids, writable>>

\* variant: an id the list does not hold removes the first task
RemoveTask_OrFirst(ts, id) ==
    IF \E i \in 1..Len(ts) : ts[i].id = id
    THEN SelectSeq(ts, LAMBDA task : task.id # id)
    ELSE IF ts = <<>> THEN ts ELSE Tail(ts)

\* variant: the comparison is inverted
RemoveTask_KeepOnly(ts, id) == SelectSeq(ts, LAMBDA task : task.id = id)

\* [task for task in self.tasks if task.id != self.current_task.id]
RemoveTask(ts, id) == SelectSeq(ts, LAMBDA task : task.id # id)

\* action_delete_task
action_delete_task ==
    /\ pc = "running"
    /\ last_event' = "delete"
    /\ IF current_task # None
       THEN /\ tasks' = RemoveTask(tasks, current_task)
            /\ SaveTasks(tasks')
            /\ refresh_table(tasks', search_filter)
       ELSE UNCHANGED <<file, tasks, current_task, table_rows, cursor_row,
                        highlight_pending, disk_shadow, cursor_by_user>>
    /\ UNCHANGED <<pc, task_counter, search_filter, modal_waiting, now,
                   ever_ids, writable>>

\* the program ends (quit, or the crash) and is started again later:
\* a new TaskManagerApp, the storage file as the last process left it
Restart ==
    /\ pc \in {"running", "crashed"}
    /\ last_event' = "restart"
    /\ now < MaxNow
    /\ now' = now + 1
    /\ pc' = "start"
    /\ tasks' = <<>>
    /\ task_counter' = 0
    /\ current_task' = None
    /\ search_filter' = <<>>
    /\ table_rows' = <<>>
    /\ cursor_row' = 0
    /\ highlight_pending' = 0
    /\ modal_waiting' = 0
    /\ ever_ids' = {}
    /\ cursor_by_user' = FALSE
    /\ UNCHANGED <<file, disk_shadow, writable>>

Next ==
    \/ on_mount
    \/ on_data_table_row_highlighted
    \/ MoveCursor
    \/ on_input_changed
    \/ action_clear_search
    \/ action_add_task
    \/ AddTaskResume
    \/ AddTaskCancel
    \/ action_complete_task
    \/ action_delete_task

\* one run of the program, from its start
Spec == Init /\ [][Next]_vars

\* several runs of the program over the same storage file, by a user who
\* leaves the search input and the table cursor alone
NextSessions ==
    \/ on_mount
    \/ on_data_table_row_highlighted
    \/ action_add_task
    \/ AddTaskResume
    \/ AddTaskCancel
    \/ action_complete_task
    \/ action_delete_task
    \/ Restart

SpecSessions == Init /\ [][NextSessions]_vars

\* the storage stops or starts accepting writes (full disk, permissions)
StorageFault ==
    /\ pc = "running"
    /\ writable' = ~writable
    /\ last_event' = "fault"
    /\ UNCHANGED <<pc, file, tasks, task_counter, current_task, search_filter,
                   table_rows, cursor_row, highlight_pending, modal_waiting,
                   now, ever_ids, disk_shadow, cursor_by_user>>

\* one run of the program on a storage that may refuse writes, by a user
\* who leaves the search input and the table cursor alone
NextFault ==
    \/ on_mount
    \/ on_data_table_row_highlighted
    \/ action_add_task
    \/ AddTaskResume
    \/ AddTaskCancel
    \/ action_complete_task
    \/ action_delete_task
    \/ StorageFault

SpecFault == Init /\ [][NextFault]_vars

\* one process, any modal input, no search and no cursor move
NextForm ==
    \/ on_mount
    \/ on_data_table_row_highlighted
    \/ action_add_task
    \/ AddTaskForm
    \/ AddTaskCancel
    \/ action_delete_task

SpecForm == Init /\ [][NextForm]_vars

(* ---------------------------- properties ------------------------------- *)
Running == pc = "running"

\* a step of one process that appends to, removes from, or rewrites in
\* place the collection
CreateStep == Running /\ pc' = "running" /\ Len(tasks') > Len(tasks)
DeleteStep == Running /\ pc' = "running" /\ Len(tasks') < Len(tasks)
ToggleStep ==
    Running /\ pc' = "running" /\ Len(tasks') = Len(tasks) /\ tasks' # tasks

InView(id) == \E k \in 1..Len(table_rows) : table_rows[k] = id

\* C1: within one process every Create assigns an id numerically greater
\* than every id the collection holds or has held, so no two tasks of the
\* collection share an id and a deleted task's id is not assigned again.
C1_IdsNeverReused ==
    /\ [](Running =>
            \A i, j \in 1..Len(tasks) : tasks[i].id = tasks[j].id => i = j)
    /\ [][CreateStep =>
            /\ tasks'[Len(tasks')].id \notin ever_ids
            /\ \A old \in ever_ids :
                 StrToInt(tasks'[Len(tasks')].id) > StrToInt(old)]_vars

\* the task loaded with id "9" was deleted and a task with id "10" exists
C1_Witness ==
    /\ Running
    /\ <<"9">> \in ever_ids \ Ids(tasks)
    /\ <<"1", "0">> \in Ids(tasks)

\* C2: when the collection or the search text changed and the previously
\* selected task is still in the new filtered view, the selection that the
\* recomputation settles on is that same task.
C2_SelectionKeptByIdentity ==
    [][(/\ Running /\ pc' = "running"
        /\ highlight_pending' < highlight_pending
        /\ ~cursor_by_user
        /\ current_task # None
        /\ InView(current_task))
       => current_task' = current_task]_vars

\* C3: once the only remaining task is deleted there is no current task,
\* and a Create that follows makes the new task the current one.
C3_EmptyThenSelected ==
    (Running /\ highlight_pending = 0) =>
        /\ tasks = <<>> => current_task = None
        /\ (Len(tasks) = 1 /\ table_rows # <<>>) => current_task = tasks[1].id

FieldType(k) ==
    CASE k = "completed" -> "bool" [] k = "tags" -> "list" [] OTHER -> "string"

FileCorrupt(f) ==
    \/ f.kind = "garbage"
    \/ /\ f.kind = "json"
       /\ \E i \in 1..Len(f.data) :
            \/ ~(RequiredFields \subseteq DOMAIN f.data[i])
            \/ \E k \in DOMAIN f.data[i] : f.data[i][k].t # FieldType(k)

\* C4: a file that is not JSON, or in which a record lacks a required field
\* or has a field of the wrong type, loads as the empty collection and the
\* application keeps running.
C4_CorruptFileLoadsEmpty ==
    [][(pc = "start" /\ FileCorrupt(file))
       => (pc' = "running" /\ tasks' = <<>>)]_vars

\* C5: a start that finds the file as the last save wrote it loads the
\* collection that save was given: same tasks, same fields, same order.
C5_RoundTrip ==
    [][(pc = "start" /\ disk_shadow.valid)
       => (pc' = "running" /\ tasks' = disk_shadow.tasks)]_vars

\* just loaded, in a later session: two or more tasks, one completed, one
\* with tags, one stamped before this session began
C5_Witness ==
    /\ Running /\ now > 0 /\ current_task = None
    /\ disk_shadow.valid /\ tasks = disk_shadow.tasks
    /\ Len(tasks) >= 2
    /\ \E i \in 1..Len(tasks) : tasks[i].completed
    /\ \E i \in 1..Len(tasks) : tasks[i].tags # <<>>
    /\ \E i \in 1..Len(tasks) : tasks[i].created_at # IsoFormat(now)

\* C6: after a load the counter is one more than the greatest numeric id
\* loaded, and zero when nothing was loaded; the id the next Create will
\* assign is the id of no loaded task.
C6_CounterAfterLoad ==
    [][(pc = "start" /\ pc' = "running") =>
         /\ IF tasks' = <<>> THEN task_counter' = 0
            ELSE /\ \A i \in 1..Len(tasks') :
                      StrToInt(tasks'[i].id) < task_counter'
                 /\ \E i \in 1..Len(tasks') :
                      StrToInt(tasks'[i].id) + 1 = task_counter'
         /\ IntToStr(task_counter') \notin Ids(tasks')]_vars

\* just loaded: several tasks, and ids below the counter that were deleted
\* in the earlier session
C6_Witness ==
    /\ Running /\ now > 0 /\ current_task = None
    /\ Len(tasks) >= 2
    /\ task_counter > Len(tasks)
    /\ ever_ids = Ids(tasks)
    /\ task_counter = StrToInt(tasks[Len(tasks)].id) + 1

CaseEq(a, b) == LowerChar(a) = LowerChar(b)

\* s occurs in str, letters compared without regard to case
OccursIgnoringCase(s, str) ==
    \E off \in 0..(Len(str) - Len(s)) :
        \A j \in 1..Len(s) : CaseEq(str[off + j], s[j])

Wanted(task, s) ==
    \/ s = <<>>
    \/ OccursIgnoringCase(s, task.title)
    \/ \E i \in 1..Len(task.tags) : OccursIgnoringCase(s, task.tags[i])

\* r is ts restricted to its wanted tasks, in the order of ts
IsSubsequenceOfWanted(r, ts, s) ==
    LET keep == {i \in 1..Len(ts) : Wanted(ts[i], s)}
        nth(k) == CHOOSE i \in keep : Cardinality({j \in keep : j < i}) = k - 1
    IN /\ Len(r) = Cardinality(keep)
       /\ \A k \in 1..Len(r) : r[k] = ts[nth(k)]

\* C7: the filtered view for the empty text is the collection itself; for a
\* text s it is exactly the tasks whose title or one of whose tags contains
\* s without regard to case, in collection order, none twice.
C7_FilterCorrectness ==
    Running =>
        /\ get_filtered_tasks(tasks, <<>>) = tasks
        /\ \A s \in SearchTexts :
             IsSubsequenceOfWanted(get_filtered_tasks(tasks, s), tasks, s)

\* the text "bC" shows the tasks tagged "Bc" and hides a task before them
C7_Witness ==
    /\ Running
    /\ search_filter = <<"b", "C">>
    /\ Len(tasks) = 3
    /\ Len(table_rows) = 2
    /\ table_rows = <<tasks[2].id, tasks[3].id>>

\* C8: a Delete of a present task removes that task alone: the others stay,
\* unchanged and in their order, and the counter keeps its value.
C8_DeleteFrame ==
    [][DeleteStep =>
         /\ \E k \in 1..Len(tasks) :
              /\ tasks[k].id = current_task
              /\ tasks' = SubSeq(tasks, 1, k - 1) \o SubSeq(tasks, k + 1, Len(tasks))
         /\ task_counter' = task_counter]_vars

\* two tasks remain around a deleted one: the middle task of three is gone
C8_Witness ==
    /\ Running
    /\ Len(tasks) = 2
    /\ \E d \in ever_ids \ Ids(tasks) :
         /\ StrToInt(tasks[1].id) < StrToInt(d)
         /\ StrToInt(d) < StrToInt(tasks[2].id)

\* C9: a Create appends one task, not completed, whose id is the decimal
\* text of the counter, advances the counter by one and leaves the tasks
\* already there as they were, in their order.
C9_CreateFrame ==
    [][CreateStep =>
         /\ Len(tasks') = Len(tasks) + 1
         /\ SubSeq(tasks', 1, Len(tasks)) = tasks
         /\ tasks'[Len(tasks')].completed = FALSE
         /\ IsNumeric(tasks'[Len(tasks')].id)
         /\ StrToInt(tasks'[Len(tasks')].id) = task_counter
         /\ tasks'[Len(tasks')].id = IntToStr(task_counter)
         /\ task_counter' = task_counter + 1]_vars

\* a task was appended behind a completed one and no task was created since
C9_Witness ==
    /\ Running
    /\ Len(tasks) >= 2
    /\ tasks[1].completed
    /\ ~tasks[Len(tasks)].completed
    /\ tasks[Len(tasks)].id = IntToStr(task_counter - 1)

\* C10: a toggle flips the completed flag of the one task it is aimed at and
\* changes nothing else of the collection nor the counter; a second toggle
\* of the same task gives back the collection as it was.
C10_ToggleFrame ==
    /\ [](Running =>
            \A id \in Ids(tasks) :
                /\ ToggleCompleted(tasks, id) # tasks
                /\ ToggleCompleted(ToggleCompleted(tasks, id), id) = tasks)
    /\ [][ToggleStep =>
            /\ \E k \in 1..Len(tasks) :
                 /\ tasks[k].id = current_task
                 /\ tasks' = [tasks EXCEPT ![k].completed = ~tasks[k].completed]
            /\ task_counter' = task_counter]_vars

\* a task created in this session is completed, next to one that is not
C10_Witness ==
    /\ Running /\ now = 0
    /\ Len(tasks) >= 2
    /\ \E i \in 1..Len(tasks) :
         /\ tasks[i].completed
         /\ tasks[i].created_at = IsoFormat(now)
         /\ tasks[i].id # <<"9">>
    /\ \E i \in 1..Len(tasks) : ~tasks[i].completed

\* the target of a toggle or delete key press is missing: nothing is
\* selected, or the selected Task object is no longer in self.tasks
MissingTarget == current_task = None \/ current_task \notin Ids(tasks)

\* C11: a toggle or delete whose target does not exist (no selection, or a
\* selected task that was already removed) is a no-op on the store: the
\* collection and the id counter are unchanged and no error is raised.
C11_MissingTargetNoOp ==
    [][(Running /\ MissingTarget /\ last_event' \in {"toggle", "delete"})
         => /\ tasks' = tasks
            /\ task_counter' = task_counter
            /\ pc' = "running"]_vars

\* the toggle key was pressed while the selected Task object was no longer
\* in the collection (a toggle changes neither the selection nor the ids)
C11_Witness ==
    /\ Running
    /\ last_event = "toggle"
    /\ current_task # None
    /\ current_task \notin Ids(tasks)
    /\ tasks # <<>>

\* the file is a JSON list with one object per task of ts, in the order of
\* ts, each object holding exactly the six fields with the task's values
FileHolds(f, ts) ==
    /\ f.kind = "json"
    /\ Len(f.data) = Len(ts)
    /\ \A i \in 1..Len(ts) :
         /\ DOMAIN f.data[i] = TaskFields
         /\ \A k \in TaskFields :
              /\ f.data[i][k].t = FieldType(k)
              /\ PyValue(f.data[i][k]) = ts[i][k]

\* a step of a handler that calls save_tasks
WritingStep ==
    /\ Running
    /\ \/ last_event' = "create"
       \/ last_event' \in {"toggle", "delete"} /\ current_task # None

\* C12: a failed write is swallowed. A create, toggle or delete whose write
\* fails keeps its effect in memory and raises nothing, the events after it
\* are handled as usual, and the next write that succeeds puts the whole
\* in-memory collection into the file.
C12_FailedWriteSwallowed ==
    /\ [][(WritingStep /\ ~writable) =>
            /\ pc' = "running"
            /\ last_event' = "create" =>
                 /\ Len(tasks') = Len(tasks) + 1
                 /\ SubSeq(tasks', 1, Len(tasks)) = tasks
                 /\ task_counter' = task_counter + 1
            /\ (last_event' = "delete" /\ ~MissingTarget) =>
                 /\ current_task \notin Ids(tasks')
                 /\ Len(tasks') = Len(tasks) - 1
            /\ (last_event' = "toggle" /\ ~MissingTarget) =>
                 \E i \in 1..Len(tasks) :
                    /\ tasks[i].id = current_task
                    /\ tasks' = [tasks EXCEPT ![i].completed = ~tasks[i].completed]
          ]_vars
    /\ [][(WritingStep /\ writable /\ ~FileHolds(file, tasks)) =>
            FileHolds(file', tasks')]_vars

\* a create whose write has just failed: the task is in memory, the file
\* does not hold the collection, the application runs
C12_Witness ==
    /\ Running
    /\ ~writable
    /\ last_event = "create"
    /\ Len(tasks) >= 2
    /\ ~FileHolds(file, tasks)

\* C13: after every event has run to completion (no RowHighlighted message
\* left to handle) the selection is none or a task of the displayed filtered
\* view, and it is none whenever that view is empty.
C13_SelectionInView ==
    (Running /\ highlight_pending = 0) =>
        /\ current_task = None \/ InView(current_task)
        /\ table_rows = <<>> => current_task = None

\* C14: when the filtered view becomes non-empty while nothing is selected
\* (after the load, after a create into an empty view, after a change of the
\* search text), the selection becomes the first task of the filtered view:
\* once the table's RowHighlighted messages are handled, and unless the user
\* has moved the cursor since, a non-empty view has its first task selected.
C14_FirstRowSelected ==
    (Running /\ highlight_pending = 0 /\ table_rows # <<>> /\ ~cursor_by_user)
        => current_task = table_rows[1]

\* the first task this process ever held was created into the empty view
\* and the RowHighlighted the table posted for it has been handled
C14_Witness ==
    /\ Running
    /\ last_event = "highlight"
    /\ highlight_pending = 0
    /\ ever_ids = { <<"0">> }
    /\ table_rows = << <<"0">> >>
    /\ current_task = <<"0">>

\* C15: after every create, toggle or delete that changes the collection
\* and whose write succeeds, the file holds exactly the in-memory collection
\* (same tasks, same field values, same order); and while writes succeed a
\* file that holds the collection keeps holding it, so that no mutation is
\* left unwritten between two events.
C15_FileFollowsMemory ==
    /\ [][(Running /\ pc' = "running" /\ writable /\ tasks' # tasks)
            => FileHolds(file', tasks')]_vars
    /\ [][(Running /\ pc' = "running" /\ writable /\ FileHolds(file, tasks))
            => FileHolds(file', tasks')]_vars

\* a task loaded from the file was deleted, a created one was completed,
\* and the file holds the two tasks that remain
C15_Witness ==
    /\ Running
    /\ writable
    /\ last_event = "toggle"
    /\ Len(tasks) = 2
    /\ <<"9">> \in ever_ids \ Ids(tasks)
    /\ tasks[1].completed
    /\ FileHolds(file, tasks)

\* C16: in every reachable state every task of the collection has a
\* priority among low, normal and high: a priority outside these, typed
\* into the create dialog or read from the storage file, became normal.
C16_PriorityValid ==
    \A i \in 1..Len(tasks) : tasks[i].priority \in {Low, Normal, High}

\* the create half of C16 alone: a task created in this process has a
\* priority among the three names
C16_CreatedPriorityValid ==
    [][(Running /\ last_event' = "create")
         => tasks'[Len(tasks')].priority \in {Low, Normal, High}]_vars

\* C17: the tags of every task created from comma-separated tag input hold
\* no empty entry and no two entries that are equal after trimming (the
\* entries are stored trimmed, in the order they were typed).
C17_TagsClean ==
    [][(Running /\ last_event' = "create") =>
         LET tags == tasks'[Len(tasks')].tags
         IN /\ \A i \in 1..Len(tags) : tags[i] # <<>> /\ Strip(tags[i]) = tags[i]
            /\ \A i, j \in 1..Len(tags) :
                 Strip(tags[i]) = Strip(tags[j]) => i = j]_vars

\* what does hold of a created task's tags: trimmed and not empty
C17_TagsTrimmedNonEmpty ==
    [][(Running /\ last_event' = "create") =>
         LET tags == tasks'[Len(tasks')].tags
         IN \A i \in 1..Len(tags) : tags[i] # <<>> /\ Strip(tags[i]) = tags[i]]_vars

\* C18: mutations are never interleaved. Whatever was handled while a
\* create dialog waited (a toggle, a delete, a change of the search text,
\* a second create request), each create reads the id from the counter,
\* advances the counter, appends to the collection as it then is and saves
\* it, all in one step; the ids of the collection stay pairwise distinct and
\* no step other than a delete drops a task.
C18_CreateIsOneStep ==
    /\ [](Running =>
            \A i, j \in 1..Len(tasks) : tasks[i].id = tasks[j].id => i = j)
    /\ [][(Running /\ last_event' = "create") =>
            /\ Len(tasks') = Len(tasks) + 1
            /\ SubSeq(tasks', 1, Len(tasks)) = tasks
            /\ tasks'[Len(tasks')].id = IntToStr(task_counter)
            /\ task_counter' = task_counter + 1
            /\ modal_waiting' = modal_waiting - 1
            /\ FileHolds(file', tasks')
            /\ pc' = "running"]_vars
    /\ [][(Running /\ pc' = "running" /\ last_event' # "delete")
            => Ids(tasks) \subseteq Ids(tasks')]_vars

\* a create has just completed while a second create dialog is still
\* waiting, after the loaded task was deleted behind the dialogs
C18_Witness ==
    /\ Running
    /\ last_event = "create"
    /\ modal_waiting >= 1
    /\ <<"9">> \in ever_ids \ Ids(tasks)
    /\ Ids(tasks) = { <<"1", "0">> }

\* rows are the ids of the tasks of ts wanted by the text s, in the order
\* of ts
DisplayedIs(rows, ts, s) ==
    LET keep == {i \in 1..Len(ts) : Wanted(ts[i], s)}
        nth(k) == CHOOSE i \in keep : Cardinality({j \in keep : j < i}) = k - 1
    IN /\ Len(rows) = Cardinality(keep)
       /\ \A k \in 1..Len(rows) : rows[k] = ts[nth(k)].id

\* C19: changing or clearing the search text is a pure view change: the
\* collection, the id counter and the file stay as they are; the displayed
\* rows are then the filter result for the new text, and after clear-search
\* the whole collection in insertion order. After every event the displayed
\* rows are the filter of the current collection by the current text.
C19_SearchIsViewChange ==
    /\ [](Running => DisplayedIs(table_rows, tasks, search_filter))
    /\ [][(Running /\ last_event' \in {"input", "clear_search"}) =>
            /\ tasks' = tasks
            /\ task_counter' = task_counter
            /\ file' = file
            /\ pc' = "running"]_vars
    /\ [][(Running /\ last_event' = "clear_search") =>
            /\ search_filter' = <<>>
            /\ table_rows' = [i \in 1..Len(tasks) |-> tasks[i].id]]_vars

\* the text "A" was typed: of three tasks the table shows one, not the first
C19_Witness ==
    /\ Running
    /\ last_event = "input"
    /\ search_filter = <<"A">>
    /\ Len(tasks) = 3
    /\ table_rows = << tasks[2].id >>

\* C20: a toggle or delete key press only acts on a task that is in the
\* filtered view displayed at that moment: no step of a toggle or delete
\* changes the collection unless its target is one of the displayed rows.
C20_ActsOnDisplayedOnly ==
    [][(/\ Running /\ pc' = "running"
        /\ last_event' \in {"toggle", "delete"}
        /\ tasks' # tasks)
       => InView(current_task)]_vars

====================================================================
